---- MODULE Spec2Model ----
(***************************************************************************)
(* Client install state machine of skyline-update (lib.rs): the version    *)
(* query (custom_check_update, get_update_info), the install (update) and  *)
(* the two DefaultInstaller implementations, over a small file system      *)
(* below "sd:" and the recovery marker "sd:/installing.tmpfile".           *)
(***************************************************************************)
EXTENDS Integers, Sequences, FiniteSets, TLC

\* ---------------------------------------------------------------- bounds
\* Longest required_files list a response carries.
MaxFiles == 3

\* ------------------------------------------------------ paths below "sd:"
\* A file name is the sequence of its dot-separated pieces ("a.txt" is
\* <<"a","txt">>); a path is the sequence of the names below the root "sd:".
NRomfs == <<"romfs">>
NATxt == <<"a", "txt">>
NPluginNro == <<"plugin", "nro">>

PRomfs == <<NRomfs>>
PATxt == <<NRomfs, NATxt>>
PPluginNro == <<NPluginNro>>

Paths == {PRomfs, PATxt, PPluginNro}

Root == <<>>

\* Path::parent
Parent(p) == SubSeq(p, 1, Len(p) - 1)

\* q is p or lies below p
IsUnder(q, p) == Len(q) >= Len(p) /\ SubSeq(q, 1, Len(p)) = p

\* Path::extension().unwrap_or_default(): the piece after the last dot of the
\* file name; none when the name has no dot or only a leading one.
Extension(p) ==
    IF Len(p) = 0 THEN ""
    ELSE LET n == p[Len(p)] IN
         IF Len(n) = 1 THEN ""
         ELSE IF Len(n) = 2 /\ n[1] = "" THEN ""
         ELSE n[Len(n)]

\* ------------------------------------------------------------ file system
\* fs[p] is "none" (absent), "dir", or the bytes of a regular file, named by
\* where they came from: "old" (there before any update) or a package name.
Packages == {"demo", "other"}
Bytes == {"old"} \cup Packages
Kinds == {"none", "dir"} \cup Bytes

\* Path::exists / Path::is_dir (the root "sd:" is always a directory)
Exists(f, p) == p = Root \/ f[p] # "none"
IsDir(f, p) == p = Root \/ f[p] = "dir"

\* every entry lies in a directory
WellFormedFS(f) == \A p \in Paths : f[p] # "none" => IsDir(f, Parent(p))

\* std::fs::remove_dir_all
RemoveDirAll(f, p) == [q \in Paths |-> IF IsUnder(q, p) THEN "none" ELSE f[q]]

\* std::fs::create_dir_all: creates the missing directories of d from the top,
\* stops (error, ignored by the caller) at a component that is a regular file.
RECURSIVE CreateDirAll(_, _)
CreateDirAll(f, d) ==
    IF d = Root THEN f
    ELSE LET g == CreateDirAll(f, Parent(d)) IN
         IF IsDir(g, Parent(d)) /\ g[d] = "none" THEN [g EXCEPT ![d] = "dir"] ELSE g

\* std::fs::write: fails on a directory, below a missing parent, or on an I/O
\* error (io = FALSE); otherwise the file holds buf.
WriteOk(f, p, io) == io /\ f[p] # "dir" /\ IsDir(f, Parent(p))
WriteFile(f, p, buf, io) == IF WriteOk(f, p, io) THEN [f EXCEPT ![p] = buf] ELSE f

\* ---------------------------------------------------------------- protocol
AbsolutePath(p) == [tag |-> "AbsolutePath", path |-> p]
OtherLocation == [tag |-> "Other", path |-> Root]
InstallLocations == {AbsolutePath(p) : p \in Paths} \cup {OtherLocation}

\* UpdateFile { install_location, download_index }
UpdateFile(loc, idx) == [install_location |-> loc, download_index |-> idx]

\* the artifacts the server can list: a file of a folder, the folder's own
\* entry, the executable, and one at a location that is no AbsolutePath
UpdateFiles ==
    { UpdateFile(AbsolutePath(PATxt), 4),
      UpdateFile(AbsolutePath(PRomfs), 5),
      UpdateFile(AbsolutePath(PPluginNro), 6),
      UpdateFile(OtherLocation, 7) }

ResponseCodes == {"NoUpdate", "Update", "InvalidRequest", "PluginNotFound", "Unknown"}

\* required_files: every artifact has its own download_index, so none is
\* listed twice
FileLists ==
    UNION {{l \in [1..n -> UpdateFiles] : \A a, b \in 1..n : l[a] = l[b] => a = b} :
           n \in 0..MaxFiles}

\* an Update response lists artifacts, the others list none
Responses ==
    [code : {"Update"}, plugin_name : Packages, required_files : FileLists]
    \cup [code : ResponseCodes \ {"Update"}, plugin_name : Packages, required_files : {<<>>}]

\* what the data channel can answer a connect with
EMFILE == "Too many open files (os error 24)"
ConnectErrors == {EMFILE, "Connection refused (os error 111)", "connection timed out"}

Installers == {"switch", "host"}


\* ------------------------------------------------- installer (lib.rs 11-61)
\* ShouldUpdateSwitch asking the user whether or not the marker exists
ShouldUpdateSwitch_AlwaysAsks(m, dialog) == dialog

\* DefaultInstaller::should_update on the Switch: no question is asked while
\* the marker exists; otherwise the answer of the yes/no dialog.
ShouldUpdateSwitch(m, dialog) == IF m THEN TRUE ELSE dialog

\* DefaultInstaller::should_update elsewhere
ShouldUpdateHost(m, dialog) == TRUE

should_update(inst, m, dialog) ==
    IF inst = "switch" THEN ShouldUpdateSwitch(m, dialog) ELSE ShouldUpdateHost(m, dialog)

\* DefaultInstaller::install_file on the Switch: create the parent directories
\* (unless the parent is "sd:"), then write the file.
InstallFileSwitch(f, path, buf, io) ==
    LET g == IF Parent(path) # Root THEN CreateDirAll(f, Parent(path)) ELSE f
    IN  [ok |-> WriteOk(g, path, io), fs |-> WriteFile(g, path, buf, io)]

\* DefaultInstaller::install_file elsewhere: prints, writes nothing
InstallFileHost(f, path, buf, io) == [ok |-> TRUE, fs |-> f]

install_file(inst, f, path, buf, io) ==
    IF inst = "switch" THEN InstallFileSwitch(f, path, buf, io)
    ELSE InstallFileHost(f, path, buf, io)

\* ------------------------------------------------------ update (lib.rs 63-123)
\* one iteration of the loop of lines 69-77
DeleteStep(st, file) ==
    LET loc == file.install_location IN
    IF loc.tag = "AbsolutePath" /\ IsDir(st.fs, loc.path) /\ Exists(st.fs, loc.path)
    THEN [fs |-> RemoveDirAll(st.fs, loc.path), deleted |-> st.deleted \cup {loc.path}]
    ELSE st

RECURSIVE DeleteLoop(_, _, _)
DeleteLoop(st, files, n) ==
    IF n = 0 THEN st ELSE DeleteStep(DeleteLoop(st, files, n - 1), files[n])

\* PreDelete without the test of line 68
PreDelete_IgnoresMarker(m, f, files) ==
    DeleteLoop([fs |-> f, deleted |-> {}], files, Len(files))

\* PreDelete leaving the loop of line 69 after its first entry
PreDelete_FirstOnly(m, f, files) ==
    IF ~m THEN DeleteLoop([fs |-> f, deleted |-> {}], files, IF Len(files) > 0 THEN 1 ELSE 0)
    ELSE [fs |-> f, deleted |-> {}]

\* PreDelete with the test of line 68 turned around
PreDelete_OnlyWithMarker(m, f, files) ==
    IF m THEN DeleteLoop([fs |-> f, deleted |-> {}], files, Len(files))
    ELSE [fs |-> f, deleted |-> {}]

\* PreDelete removing nothing
PreDelete_Never(m, f, files) == [fs |-> f, deleted |-> {}]

\* lines 68-78: the directories removed before installing, and the file system
\* after it; nothing when the marker exists.
PreDelete(m, f, files) ==
    IF ~m THEN DeleteLoop([fs |-> f, deleted |-> {}], files, Len(files))
    ELSE [fs |-> f, deleted |-> {}]

\* Resolve falling back to a fixed path instead of returning
Resolve_Fallback(loc) ==
    [ok |-> TRUE, path |-> IF loc.tag = "AbsolutePath" THEN loc.path ELSE PPluginNro]

\* lines 82-85
Resolve(loc) ==
    IF loc.tag = "AbsolutePath" THEN [ok |-> TRUE, path |-> loc.path]
    ELSE [ok |-> FALSE, path |-> Root]

\* ShouldSkip without the test of the marker
ShouldSkip_NoMarker(f, m, path) == Exists(f, path) /\ Extension(path) # "nro"

\* line 87
ShouldSkip(f, m, path) == Exists(f, path) /\ m /\ Extension(path) # "nro"

\* DownloadRequest sending the position in the list
DownloadRequest_Position(file, k) == k - 1

\* line 93: the eight bytes written to the data connection
DownloadRequest(file, k) == file.download_index

\* ContainsOsError24 taking every connect error for descriptor exhaustion
ContainsOsError24_Any(e) == TRUE

\* line 111
ContainsOsError24(e) == e = EMFILE

\* OnConnectError restarting without creating the marker
OnConnectError_NoMarker(e, m, r) ==
    IF ContainsOsError24(e) THEN [marker |-> m, restarts |-> r + 1]
    ELSE [marker |-> m, restarts |-> r]

\* OnConnectError restarting after every connect error
OnConnectError_RestartsAlways(e, m, r) ==
    IF ContainsOsError24(e) THEN [marker |-> TRUE, restarts |-> r + 1]
    ELSE [marker |-> m, restarts |-> r + 1]

\* lines 111-115: File::create of the marker, RestartProgramNoArgs
OnConnectError(e, m, r) ==
    IF ContainsOsError24(e) THEN [marker |-> TRUE, restarts |-> r + 1]
    ELSE [marker |-> m, restarts |-> r]

\* MarkerAfterUpdate without the remove_file
MarkerAfterUpdate_Keeps(m) == m

\* line 121: remove_file of the marker
MarkerAfterUpdate(m) == FALSE

\* CodeIsUpdate installing on NoUpdate as well
CodeIsUpdate_AlsoNoUpdate(code) == code \in {"Update", "NoUpdate"}

\* line 142-168: the response codes that lead to should_update
CodeIsUpdate(code) == code = "Update"

\* ------------------------------------------------------------------- state
VARIABLES
    fs,           \* the files below "sd:"
    marker,       \* "sd:/installing.tmpfile" exists
    pc,           \* where the running call stands
    entry,        \* the public function that was called
    installer,    \* the Installer in use
    response,     \* the decoded UpdateResponse
    i,            \* position of the loop of line 80 in required_files
    result,       \* what the call returned
    exit,         \* the return statement taken
    query,        \* what the control channel and the user answered
    lastErr,      \* error of the failed data-channel connect
    fs0,          \* fs when the call started
    marker0,      \* marker when the call started
    deleted,      \* paths remove_dir_all was called on
    connected,    \* artifacts a data connection was opened for, in order
    requests,     \* download indexes written to the data channel, in order
    installCalls, \* artifacts handed to install_file, in order
    installedOk,  \* artifacts install_file returned Ok for
    skipped,      \* artifacts passed over by line 88
    restarts,     \* calls of RestartProgramNoArgs
    resumed,      \* the call repeats, in the restarted process, the call that restarted it
    interrupted,  \* the package whose install last ended in a restart, until it is installed
    cwd,          \* update-server: std::env::current_dir()
    seen,         \* update-server: the entries read_dir("plugins") has yielded so far
    out,          \* update-server: the plugins get() has collected so far
    rpc           \* update-server: where get() stands

registryVars == <<cwd, seen, out, rpc>>

clientVars == <<fs, marker, pc, entry, installer, response, i, result, exit, query, lastErr,
                fs0, marker0, deleted, connected, requests, installCalls, installedOk,
                skipped, restarts, resumed, interrupted>>

vars == <<clientVars, registryVars>>

NoResponse == [code |-> "none", plugin_name |-> "none", required_files |-> <<>>]
NoQuery == [conn |-> FALSE, decoded |-> FALSE, accepted |-> FALSE]

files == response.required_files

ClientInit ==
    /\ fs \in {f \in [Paths -> {"none", "dir", "old"}] : WellFormedFS(f)}
    /\ marker = FALSE
    /\ pc = "idle"
    /\ entry = "none"
    /\ installer = "none"
    /\ response = NoResponse
    /\ i = 0
    /\ result = "pending"
    /\ exit = "none"
    /\ query = NoQuery
    /\ lastErr = "none"
    /\ fs0 = fs
    /\ marker0 = marker
    /\ deleted = {}
    /\ connected = <<>>
    /\ requests = <<>>
    /\ installCalls = <<>>
    /\ installedOk = {}
    /\ skipped = {}
    /\ restarts = 0
    /\ resumed = FALSE
    /\ interrupted = "none"

\* the update-server is not looked at
RegistryOff ==
    /\ cwd = <<>>
    /\ seen = <<>>
    /\ out = <<>>
    /\ rpc = "off"

Init == ClientInit /\ RegistryOff

\* a public function is entered
Enter(e, inst) ==
    /\ pc = "idle"
    /\ entry' = e
    /\ installer' = inst
    /\ fs0' = fs
    /\ marker0' = marker

\* the call returns r through the return statement x
Leave(r, x) ==
    /\ pc' = "done"
    /\ result' = r
    /\ exit' = x

NoEffect == UNCHANGED <<fs, marker, deleted, connected, requests, installCalls,
                        installedOk, skipped, restarts, lastErr>>

\* ------------------------------------- custom_check_update (lib.rs 126-185)
\* lines 179-183: the control connection fails
CheckConnectFail ==
    /\ pc = "idle"
    /\ \E inst \in Installers :
        /\ Enter("custom_check_update", inst)
        /\ Leave("false", "connect_control")
        /\ query' = NoQuery
        /\ UNCHANGED <<response, i>>
        /\ NoEffect
    /\ UNCHANGED <<resumed, interrupted, registryVars>>

\* lines 170-172: the answer does not decode
CheckDecodeFail ==
    /\ pc = "idle"
    /\ \E inst \in Installers :
        /\ Enter("custom_check_update", inst)
        /\ Leave("false", "decode")
        /\ query' = [NoQuery EXCEPT !.conn = TRUE]
        /\ UNCHANGED <<response, i>>
        /\ NoEffect
    /\ UNCHANGED <<resumed, interrupted, registryVars>>

\* lines 143, 157-168: a response whose code is not Update
CheckOtherCode ==
    /\ pc = "idle"
    /\ \E inst \in Installers, resp \in Responses :
        /\ ~CodeIsUpdate(resp.code)
        /\ Enter("custom_check_update", inst)
        /\ Leave("false", "code")
        /\ response' = resp
        /\ query' = [conn |-> TRUE, decoded |-> TRUE, accepted |-> FALSE]
        /\ UNCHANGED i
        /\ NoEffect
    /\ UNCHANGED <<resumed, interrupted, registryVars>>

\* lines 145, 153-155: should_update says no
CheckDeclined ==
    /\ pc = "idle"
    /\ \E inst \in Installers, resp \in Responses, dialog \in BOOLEAN :
        /\ CodeIsUpdate(resp.code)
        /\ ~should_update(inst, marker, dialog)
        /\ Enter("custom_check_update", inst)
        /\ Leave("false", "declined")
        /\ response' = resp
        /\ query' = [conn |-> TRUE, decoded |-> TRUE, accepted |-> FALSE]
        /\ UNCHANGED i
        /\ NoEffect
    /\ UNCHANGED <<resumed, interrupted, registryVars>>

\* lines 145-146: should_update says yes, update is called
CheckAccepted ==
    /\ pc = "idle"
    /\ \E inst \in Installers, resp \in Responses, dialog \in BOOLEAN :
        /\ CodeIsUpdate(resp.code)
        /\ should_update(inst, marker, dialog)
        /\ Enter("custom_check_update", inst)
        /\ pc' = "predelete"
        /\ response' = resp
        /\ query' = [conn |-> TRUE, decoded |-> TRUE, accepted |-> TRUE]
        /\ UNCHANGED <<i, result, exit>>
        /\ NoEffect
    /\ UNCHANGED <<resumed, interrupted, registryVars>>

\* ----------------------------------------- get_update_info (lib.rs 198-222)
GetUpdateInfoNone ==
    /\ pc = "idle"
    /\ \E conn \in BOOLEAN :
        /\ Enter("get_update_info", "none")
        /\ Leave("None", "info")
        /\ query' = [NoQuery EXCEPT !.conn = conn]
        /\ UNCHANGED <<response, i>>
        /\ NoEffect
    /\ UNCHANGED <<resumed, interrupted, registryVars>>

GetUpdateInfoSome ==
    /\ pc = "idle"
    /\ \E resp \in Responses :
        /\ Enter("get_update_info", "none")
        /\ Leave("Some", "info")
        /\ response' = resp
        /\ query' = [conn |-> TRUE, decoded |-> TRUE, accepted |-> FALSE]
        /\ UNCHANGED i
        /\ NoEffect
    /\ UNCHANGED <<resumed, interrupted, registryVars>>

\* ------------------------------------------ install_update (lib.rs 224-226)
InstallUpdate ==
    /\ pc = "idle"
    /\ \E inst \in Installers, resp \in Responses :
        /\ Enter("install_update", inst)
        /\ pc' = "predelete"
        /\ response' = resp
        /\ query' = NoQuery
        /\ UNCHANGED <<i, result, exit>>
        /\ NoEffect
    /\ UNCHANGED <<resumed, interrupted, registryVars>>

\* ------------------------------------------------------ update (lib.rs 63-123)
\* lines 68-78
PreDeleteStep ==
    /\ pc = "predelete"
    /\ LET st == PreDelete(marker, fs, files) IN
        /\ fs' = st.fs
        /\ deleted' = st.deleted
    /\ i' = 1
    /\ pc' = "loop"
    /\ UNCHANGED <<marker, entry, installer, response, result, exit, query, lastErr, fs0,
                   marker0, connected, requests, installCalls, installedOk, skipped,
                   restarts>>
    /\ UNCHANGED <<resumed, interrupted, registryVars>>

AtFile == pc = "loop" /\ i <= Len(files)
Here == Resolve(files[i].install_location)

\* lines 82-85: a location that is no AbsolutePath
ResolveReject ==
    /\ AtFile
    /\ ~Here.ok
    /\ Leave("false", "location")
    /\ UNCHANGED <<entry, installer, response, i, query, fs0, marker0>>
    /\ NoEffect
    /\ UNCHANGED <<resumed, interrupted, registryVars>>

\* lines 87-89
Skip ==
    /\ AtFile
    /\ Here.ok
    /\ ShouldSkip(fs, marker, Here.path)
    /\ skipped' = skipped \cup {i}
    /\ i' = i + 1
    /\ UNCHANGED <<fs, marker, pc, entry, installer, response, result, exit, query, lastErr,
                   fs0, marker0, deleted, connected, requests, installCalls, installedOk,
                   restarts>>
    /\ UNCHANGED <<resumed, interrupted, registryVars>>

\* lines 90-91: the data connection opens
ConnectOk ==
    /\ AtFile
    /\ Here.ok
    /\ ~ShouldSkip(fs, marker, Here.path)
    /\ connected' = Append(connected, i)
    /\ pc' = "read"
    /\ UNCHANGED <<fs, marker, entry, installer, response, i, result, exit, query, lastErr,
                   fs0, marker0, deleted, requests, installCalls, installedOk, skipped,
                   restarts>>
    /\ UNCHANGED <<resumed, interrupted, registryVars>>

\* lines 107-117: the data connection fails with error e
ConnectFail ==
    \E e \in ConnectErrors :
        /\ AtFile
        /\ Here.ok
        /\ ~ShouldSkip(fs, marker, Here.path)
        /\ lastErr' = e
        /\ LET r == OnConnectError(e, marker, restarts) IN
            /\ marker' = r.marker
            /\ restarts' = r.restarts
        /\ Leave("false", "connect_data")
        /\ UNCHANGED <<fs, entry, installer, response, i, query, fs0, marker0, deleted,
                       connected, requests, installCalls, installedOk, skipped>>
        /\ interrupted' = IF OnConnectError(e, marker, restarts).restarts # restarts
                         THEN response.plugin_name ELSE interrupted
        /\ UNCHANGED <<resumed, registryVars>>

\* lines 92-94: the index is written, the body is read to its end
ReadOk ==
    /\ pc = "read"
    /\ requests' = Append(requests, DownloadRequest(files[i], i))
    /\ pc' = "install"
    /\ UNCHANGED <<fs, marker, entry, installer, response, i, result, exit, query, lastErr,
                   fs0, marker0, deleted, connected, installCalls, installedOk, skipped,
                   restarts>>
    /\ UNCHANGED <<resumed, interrupted, registryVars>>

\* lines 93-97: the index is written, reading fails
ReadFail ==
    /\ pc = "read"
    /\ requests' = Append(requests, DownloadRequest(files[i], i))
    /\ Leave("false", "read")
    /\ UNCHANGED <<fs, marker, entry, installer, response, i, query, lastErr, fs0, marker0,
                   deleted, connected, installCalls, installedOk, skipped, restarts>>
    /\ UNCHANGED <<resumed, interrupted, registryVars>>

\* the bytes the server streams for an artifact of this response
ServerBytes == response.plugin_name

\* lines 101-105: install_file returns Ok
InstallOk ==
    \E io \in BOOLEAN :
        LET r == install_file(installer, fs, Here.path, ServerBytes, io) IN
        /\ pc = "install"
        /\ r.ok
        /\ fs' = r.fs
        /\ installCalls' = Append(installCalls, i)
        /\ installedOk' = installedOk \cup {i}
        /\ i' = i + 1
        /\ pc' = "loop"
        /\ UNCHANGED <<marker, entry, installer, response, result, exit, query, lastErr,
                       fs0, marker0, deleted, connected, requests, skipped, restarts>>
    /\ UNCHANGED <<resumed, interrupted, registryVars>>

\* lines 101-103: install_file returns Err
InstallErr ==
    \E io \in BOOLEAN :
        LET r == install_file(installer, fs, Here.path, ServerBytes, io) IN
        /\ pc = "install"
        /\ ~r.ok
        /\ fs' = r.fs
        /\ installCalls' = Append(installCalls, i)
        /\ Leave("false", "install")
        /\ UNCHANGED <<marker, entry, installer, response, i, query, lastErr, fs0, marker0,
                       deleted, connected, requests, installedOk, skipped, restarts>>
    /\ UNCHANGED <<resumed, interrupted, registryVars>>

\* line 94: the index is written, the server sends nothing and does not close;
\* read_to_end has no timeout and does not return
ReadBlocks ==
    /\ pc = "read"
    /\ requests' = Append(requests, DownloadRequest(files[i], i))
    /\ pc' = "blocked"
    /\ UNCHANGED <<fs, marker, entry, installer, response, i, result, exit, query, lastErr,
                   fs0, marker0, deleted, connected, installCalls, installedOk, skipped,
                   restarts, resumed, interrupted, registryVars>>

\* lines 120-122: the loop is over
Finish ==
    /\ pc = "loop"
    /\ i > Len(files)
    /\ marker' = MarkerAfterUpdate(marker)
    /\ Leave("true", "finished")
    /\ UNCHANGED <<fs, entry, installer, response, i, query, lastErr, fs0, marker0, deleted,
                   connected, requests, installCalls, installedOk, skipped, restarts>>
    /\ interrupted' = IF interrupted = response.plugin_name THEN "none" ELSE interrupted
    /\ UNCHANGED <<resumed, registryVars>>

\* the caller has the result; the next call (or the restarted process) starts
\* from the files and the marker as they are
Return ==
    /\ pc = "done"
    /\ pc' = "idle"
    /\ entry' = "none"
    /\ installer' = "none"
    /\ response' = NoResponse
    /\ i' = 0
    /\ result' = "pending"
    /\ exit' = "none"
    /\ query' = NoQuery
    /\ lastErr' = "none"
    /\ fs0' = fs
    /\ marker0' = marker
    /\ deleted' = {}
    /\ connected' = <<>>
    /\ requests' = <<>>
    /\ installCalls' = <<>>
    /\ installedOk' = {}
    /\ skipped' = {}
    /\ restarts' = 0
    /\ UNCHANGED <<fs, marker>>
    /\ resumed' = FALSE
    /\ UNCHANGED <<interrupted, registryVars>>

\* lines 112-114: the process RestartProgramNoArgs started again repeats the
\* query, gets the same response and accepts it
Restarted ==
    /\ pc = "done"
    /\ restarts = 1
    /\ \E dialog \in BOOLEAN : should_update(installer, marker, dialog)
    /\ pc' = "predelete"
    /\ resumed' = TRUE
    /\ entry' = "custom_check_update"
    /\ query' = [conn |-> TRUE, decoded |-> TRUE, accepted |-> TRUE]
    /\ i' = 0
    /\ result' = "pending"
    /\ exit' = "none"
    /\ lastErr' = "none"
    /\ fs0' = fs
    /\ marker0' = marker
    /\ deleted' = {}
    /\ connected' = <<>>
    /\ requests' = <<>>
    /\ installCalls' = <<>>
    /\ installedOk' = {}
    /\ skipped' = {}
    /\ restarts' = 0
    /\ UNCHANGED <<fs, marker, installer, response, interrupted, registryVars>>

Next ==
    \/ CheckConnectFail
    \/ CheckDecodeFail
    \/ CheckOtherCode
    \/ CheckDeclined
    \/ CheckAccepted
    \/ GetUpdateInfoNone
    \/ GetUpdateInfoSome
    \/ InstallUpdate
    \/ PreDeleteStep
    \/ ResolveReject
    \/ Skip
    \/ ConnectOk
    \/ ConnectFail
    \/ ReadOk
    \/ ReadFail
    \/ ReadBlocks
    \/ InstallOk
    \/ InstallErr
    \/ Finish
    \/ Return
    \/ Restarted

Spec == Init /\ [][Next]_vars

TypeOK ==
    /\ fs \in [Paths -> Kinds]
    /\ WellFormedFS(fs)
    /\ marker \in BOOLEAN
    /\ pc \in {"idle", "predelete", "loop", "read", "blocked", "install", "done"}
    /\ i \in 0..(MaxFiles + 1)
    /\ restarts \in 0..1
    /\ resumed \in BOOLEAN
    /\ interrupted \in Packages \cup {"none"}


\* ---------------------------------------------------------------- properties
Range(seq) == {seq[k] : k \in 1..Len(seq)}
Positions == 1..Len(files)
IsAbsolute(k) == files[k].install_location.tag = "AbsolutePath"
PathOf(k) == files[k].install_location.path

\* update has been entered and its pre-download step is over
InUpdate == i >= 1

\* the positions of AbsolutePath artifacts whose path was a directory when the
\* call started
DirsAtStart == {k \in Positions : IsAbsolute(k) /\ fs0[PathOf(k)] = "dir"}

\* C1: in a call that starts with the marker present remove_dir_all is called
\* on nothing, and until install_file is first called the files are as they
\* were when the call started.
C1_NoDeletionWhenMarkerPresent ==
    marker0 => /\ deleted = {}
               /\ (installCalls = <<>> => fs = fs0)

C1_Witness ==
    /\ marker0
    /\ exit = "finished"
    /\ installCalls # <<>>
    /\ \E k \in DirsAtStart : fs[PathOf(k)] = "dir"

\* C2: after a data connect failed with "os error 24" the marker exists,
\* RestartProgramNoArgs was called exactly once, the call is over with result
\* false, and the artifact the connect was for was neither requested nor
\* installed.
C2_ExhaustionRestartsOnce ==
    lastErr = EMFILE =>
        /\ marker
        /\ restarts = 1
        /\ pc = "done"
        /\ result = "false"
        /\ \A k \in Positions : k >= i => k \notin Range(connected) \cup Range(installCalls)
        /\ Len(requests) = Len(connected)

C2_Witness ==
    /\ lastErr = EMFILE
    /\ ~marker0
    /\ installedOk # {}
    /\ i < Len(files)

\* C3: when update returned true every artifact of required_files was skipped
\* or was requested and installed with Ok, and the marker does not exist.
C3_TrueMeansAllDoneAndMarkerGone ==
    result = "true" =>
        /\ \A k \in Positions :
              \/ k \in skipped
              \/ k \in installedOk /\ k \in Range(connected)
        /\ ~marker

C3_Witness ==
    /\ result = "true"
    /\ marker0
    /\ skipped # {}
    /\ installedOk # {}

\* C4: the marker appears only in the step where a data connect fails with
\* "os error 24", disappears only in the step where update returns true with
\* every artifact skipped or installed, and a call that returns false leaves
\* an existing marker existing.
C4_MarkerStep ==
    /\ (~marker /\ marker') => (pc = "loop" /\ pc' = "done" /\ lastErr' = EMFILE)
    /\ (marker /\ ~marker') =>
          /\ result' = "true"
          /\ \A k \in Positions : k \in skipped \cup installedOk
    /\ (marker /\ pc # "done" /\ pc' = "done" /\ result' = "false") => marker'

C4_MarkerLifecycle == [][C4_MarkerStep]_vars

C4_Witness ==
    /\ marker
    /\ marker0
    /\ pc = "done"
    /\ result = "false"
    /\ exit = "install"

\* C5: in a call that starts with the marker absent, once the pre-download
\* step is over every AbsolutePath artifact whose path was a directory at the
\* start had remove_dir_all called on it or on a directory above it, and it is
\* gone while no data connection has been opened and nothing installed.
C5_DirectoriesDeletedBeforeFetch ==
    (InUpdate /\ ~marker0) =>
        \A k \in DirsAtStart :
            /\ \E d \in deleted : IsUnder(PathOf(k), d)
            /\ (connected = <<>> /\ installCalls = <<>>) => fs[PathOf(k)] = "none"

C5_Witness ==
    /\ InUpdate
    /\ ~marker0
    /\ Cardinality({PathOf(k) : k \in DirsAtStart}) >= 2
    /\ connected # <<>>


\* the test the skip rule is said to make, on the files and the marker as they
\* are when the loop reaches artifact k
SkipCondition(k) ==
    /\ fs[PathOf(k)] # "none"
    /\ marker
    /\ Extension(PathOf(k)) # "nro"

\* the loop of line 80 passes over artifact i in this step
SkipsHere == skipped' = skipped \cup {i} /\ i' = i + 1 /\ pc' = "loop"

C6_SkipStep ==
    (pc = "loop" /\ i <= Len(files) /\ IsAbsolute(i)) => (SkipsHere <=> SkipCondition(i))

\* C6: the loop passes over an AbsolutePath artifact exactly when its path
\* exists, the marker exists and its extension is not "nro"; a skipped artifact
\* gets no data connection and no install_file call; a call that starts with
\* the marker absent skips nothing and opens a connection (or fails to) for
\* every artifact it reaches.
C6_SkipRule ==
    /\ [][C6_SkipStep]_vars
    /\ [](skipped \cap (Range(connected) \cup Range(installCalls)) = {})
    /\ [](~marker0 => skipped = {})

C6_Witness ==
    /\ marker0
    /\ pc = "done"
    /\ \E k \in skipped : fs0[PathOf(k)] = "old"
    /\ \E k \in installedOk : fs0[PathOf(k)] = "old" /\ Extension(PathOf(k)) = "nro"

\* the positions up to n that were not skipped, in the order of required_files
RECURSIVE NotSkipped(_)
NotSkipped(n) ==
    IF n = 0 THEN <<>>
    ELSE IF n \in skipped THEN NotSkipped(n - 1)
    ELSE Append(NotSkipped(n - 1), n)

Reached == IF i > Len(files) THEN Len(files) ELSE i

IsPrefix(a, b) == Len(a) <= Len(b) /\ a = SubSeq(b, 1, Len(a))

\* C7: the connections opened, the indexes requested and the install_file
\* calls of a call each follow the artifacts that were not skipped, in the
\* order of required_files, one connection and one request per artifact;
\* install_file is called for an artifact only when it returned Ok for every
\* earlier artifact it was called for; a call that returns true has requested
\* and installed every artifact that was not skipped.
C7_RequestsFollowRequiredFiles ==
    InUpdate =>
        LET ns == NotSkipped(Reached) IN
        /\ IsPrefix(connected, ns)
        /\ IsPrefix(installCalls, connected)
        /\ Len(requests) <= Len(connected)
        /\ Len(installCalls) <= Len(requests)
        /\ \A j \in 1..Len(requests) : requests[j] = files[ns[j]].download_index
        /\ \A j \in 1..Len(installCalls) :
              j < Len(installCalls) => installCalls[j] \in installedOk
        /\ result = "true" => (requests = [j \in 1..Len(ns) |-> files[ns[j]].download_index]
                               /\ installCalls = ns)

C7_Witness ==
    /\ result = "true"
    /\ Len(requests) >= 2
    /\ skipped # {}
    /\ requests[1] > requests[2]

\* C8: a call that ended on a data connect error other than "os error 24", on
\* a read error or on an install_file error returned false, restarted nothing,
\* left the marker as it was when the call started, requested and installed no
\* later artifact, and every file the Switch installer wrote in this call still
\* holds the bytes it wrote.
C8_PlainFailureAborts ==
    (exit \in {"read", "install"} \/ (exit = "connect_data" /\ lastErr # EMFILE)) =>
        /\ pc = "done"
        /\ result = "false"
        /\ restarts = 0
        /\ marker = marker0
        /\ \A k \in Positions : k > i => k \notin Range(connected) \cup Range(installCalls)
        /\ installer = "switch" => \A k \in installedOk : fs[PathOf(k)] = ServerBytes

C8_Witness ==
    /\ exit \in {"read", "install", "connect_data"}
    /\ lastErr # EMFILE
    /\ installer = "switch"
    /\ installedOk # {}
    /\ i < Len(files)
    /\ marker

NoClientEffect ==
    /\ fs = fs0
    /\ marker = marker0
    /\ deleted = {}
    /\ connected = <<>>
    /\ requests = <<>>
    /\ installCalls = <<>>
    /\ restarts = 0

\* C9: custom_check_update is over with result false and has changed nothing
\* unless the control connection opened, the response decoded, its code is
\* Update and should_update returned true; get_update_info changes nothing.
C9_OnlyAcceptedUpdateActs ==
    /\ (entry = "custom_check_update"
        /\ ~(query.conn /\ query.decoded /\ response.code = "Update" /\ query.accepted))
       => (NoClientEffect /\ pc = "done" /\ result = "false")
    /\ entry = "get_update_info" => (NoClientEffect /\ pc = "done")

C9_Witness ==
    /\ entry = "custom_check_update"
    /\ exit = "declined"
    /\ Len(files) > 0
    /\ \E k \in Positions : IsAbsolute(k) /\ fs[PathOf(k)] = "dir"

\* C10: in a call of update on a response listing an artifact whose location
\* is no AbsolutePath, that artifact gets no data connection and no
\* install_file call, and the call does not return true.
C10_UnsupportedLocationRejected ==
    InUpdate =>
        \A k \in Positions :
            ~IsAbsolute(k) =>
                /\ k \notin Range(connected) \cup Range(installCalls) \cup skipped
                /\ result # "true"
                /\ pc = "done" => result = "false"

C10_Witness ==
    /\ exit = "location"
    /\ i > 1
    /\ installedOk # {}


\* ---------------------------------------------------------------------------
\* update-server: the plugin registry (hosted_plugins.rs)

\* Most entries of "plugins" one get() reads.
MaxPackages == 2

NPlugins == <<"plugins">>
NSrv == <<"srv">>
NHome == <<"home">>
NData == <<"data">>
NSub == <<"sub">>
NErr == <<"ERR">>
NEmpty == <<"">>

\* a path of the server's disk: absolute or not, and its components
SrcPath(abs, comps) == [abs |-> abs, comps |-> comps]

\* Path::join: an absolute right side replaces the left side
PathJoin(a, b) == IF b.abs THEN b ELSE [abs |-> a.abs, comps |-> a.comps \o b.comps]

\* to_str().unwrap().split("/"): an absolute path starts with an empty piece
SplitSlash(p) == IF p.abs THEN <<NEmpty>> \o p.comps ELSE p.comps

\* the directories the server can be started in
Cwds == {SrcPath(TRUE, <<NSrv>>), SrcPath(TRUE, <<NHome, NPlugins, NSrv>>)}

\* the name of the k-th entry of "plugins"
DirName(k) == <<<<"pkg1">>, <<"pkg2">>, <<"pkg3">>, <<"pkg4">>>>[k]

\* the path read_dir("plugins") gives for an entry
EntryPath(name) == SrcPath(FALSE, <<NPlugins, name>>)

\* line 157: how far behind "plugins" the rewritten path starts
AnchorOffset == 3

\* Iterator::position: the first place of x in seq, 0 when there is none
Position(seq, x) ==
    IF \E k \in 1..Len(seq) : seq[k] = x
    THEN CHOOSE k \in 1..Len(seq) : seq[k] = x /\ \A j \in 1..(k - 1) : seq[j] # x
    ELSE 0

\* lines 156-158: the pieces of a walked file's path behind the anchor; the
\* unwrap of position and split_off beyond the end panic
AppendPath(full) ==
    LET parts == SplitSlash(full)
        pos == Position(parts, NPlugins)
    IN  IF pos = 0 \/ pos - 1 + AnchorOffset > Len(parts)
        THEN [panic |-> TRUE, rel |-> <<>>]
        ELSE [panic |-> FALSE, rel |-> SubSeq(parts, pos + AnchorOffset, Len(parts))]

\* lines 151-154
InstallLoc(root) == IF root.tag = "AbsolutePath" THEN root.path ELSE <<NErr>>

\* an artifact of a Plugin: (InstallLocation, Vec<u8>)
Artifact(loc, bytes) == [install_location |-> loc, bytes |-> bytes]

\* lines 147-163: one file of the walk; files.insert(0, file_data)
WalkFile(st, folder, rootPath, f) ==
    IF st.status # "ok" THEN st
    ELSE LET ap == AppendPath(PathJoin(rootPath, SrcPath(FALSE, f.rel))) IN
         IF ap.panic THEN [st EXCEPT !.status = "panic"]
         ELSE IF ~f.readable THEN [st EXCEPT !.status = "err"]
         ELSE [st EXCEPT !.files =
                 <<Artifact(AbsolutePath(InstallLoc(folder.install_root_location) \o ap.rel),
                            f.bytes)>> \o @]

RECURSIVE WalkFiles(_, _, _, _, _)
WalkFiles(st, folder, rootPath, tree, n) ==
    IF n = 0 THEN st
    ELSE WalkFile(WalkFiles(st, folder, rootPath, tree, n - 1), folder, rootPath, tree[n])

PushSentinel_Front(fls, folder) == <<Artifact(folder.install_root_location, <<>>)>> \o fls

\* line 165: files.push((folder.install_root_location, vec![]))
PushSentinel(fls, folder) == Append(fls, Artifact(folder.install_root_location, <<>>))

\* lines 140-167 for one folder: the walk of a missing root yields an error
\* that line 147 unwraps
WalkFolder(st, folder, dirPath, wd) ==
    IF st.status # "ok" THEN st
    ELSE IF ~folder.tree.exists THEN [st EXCEPT !.status = "panic"]
    ELSE LET rootPath == PathJoin(wd, PathJoin(dirPath, folder.root_name))
             w == WalkFiles(st, folder, rootPath, folder.tree.files, Len(folder.tree.files))
         IN  IF w.status # "ok" THEN w
             ELSE [w EXCEPT !.files = PushSentinel(w.files, folder)]

RECURSIVE WalkFolders(_, _, _, _, _)
WalkFolders(st, folders, dirPath, wd, n) ==
    IF n = 0 THEN st
    ELSE WalkFolder(WalkFolders(st, folders, dirPath, wd, n - 1), folders[n], dirPath, wd)

\* lines 116-124 and 137: the declared files, an error when one cannot be read
ToFiles(fls) ==
    IF \E k \in 1..Len(fls) : ~fls[k].readable
    THEN [status |-> "err", files |-> <<>>]
    ELSE [status |-> "ok",
          files |-> [k \in 1..Len(fls) |-> Artifact(fls[k].install_location, fls[k].bytes)]]

\* lines 107-114, 178-185: the Plugin collected for a directory
Plugin(name, fls) == [name |-> name, files |-> fls]

\* lines 126-186: "none" is Ok(None), "err" is Err, "plugin" is Ok(Some(Plugin))
folder_to_plugin(dir, wd) ==
    IF ~dir.is_dir THEN [status |-> "none", files |-> <<>>]
    ELSE IF dir.manifest # "ok" THEN [status |-> "err", files |-> <<>>]
    ELSE LET st == WalkFolders(ToFiles(dir.files), dir.folders, EntryPath(dir.name), wd,
                               Len(dir.folders))
         IN  IF st.status = "ok" THEN [status |-> "plugin", files |-> st.files] ELSE st

\* ----------------------------------------------- what lies in "plugins"
\* a file a plugin.toml declares (PluginFile) and whether it can be read
PluginFile(loc, readable, bytes) ==
    [install_location |-> loc, readable |-> readable, bytes |-> bytes]

\* a regular file below a folder's root, in the order the walk yields it
TreeFile(rel, readable, bytes) == [rel |-> rel, readable |-> readable, bytes |-> bytes]

\* the directory a folder's root_name resolves to
Tree(exists, fls) == [exists |-> exists, files |-> fls]

\* a folder a plugin.toml declares (PluginFolder) and what its root holds
PluginFolder(root, root_name, tree) ==
    [install_root_location |-> root, root_name |-> root_name, tree |-> tree]

Trees ==
    { Tree(FALSE, <<>>),
      Tree(TRUE, <<>>),
      Tree(TRUE, <<TreeFile(<<NATxt>>, TRUE, <<1>>)>>),
      Tree(TRUE, <<TreeFile(<<NATxt>>, TRUE, <<>>)>>),
      Tree(TRUE, <<TreeFile(<<NATxt>>, FALSE, <<1>>)>>),
      Tree(TRUE, <<TreeFile(<<NSub, NATxt>>, TRUE, <<1>>), TreeFile(<<NATxt>>, TRUE, <<1>>)>>) }

FullTrees == {t \in Trees : t.exists /\ t.files # <<>> /\ \A k \in 1..Len(t.files) : t.files[k].readable}

RootNames ==
    { SrcPath(FALSE, <<NRomfs>>),
      SrcPath(FALSE, <<NData, NRomfs>>),
      SrcPath(TRUE, <<NData, NRomfs>>) }

Exe(readable) == PluginFile(AbsolutePath(PPluginNro), readable, <<1>>)

\* a directory entry of "plugins" without its name
Definition(is_dir, manifest, fls, folders) ==
    [is_dir |-> is_dir, manifest |-> manifest, files |-> fls, folders |-> folders]

Definitions ==
    { Definition(FALSE, "missing", <<>>, <<>>),
      Definition(TRUE, "missing", <<>>, <<>>),
      Definition(TRUE, "unparseable", <<>>, <<>>) }
    \cup { Definition(TRUE, "ok", fls, <<>>) : fls \in {<<>>, <<Exe(TRUE)>>, <<Exe(FALSE)>>} }
    \cup { Definition(TRUE, "ok", fls, <<PluginFolder(AbsolutePath(PRomfs), rn, t)>>) :
             fls \in {<<>>, <<Exe(TRUE)>>}, rn \in RootNames, t \in Trees }
    \cup { Definition(TRUE, "ok", <<Exe(TRUE)>>,
                      <<PluginFolder(OtherLocation, SrcPath(FALSE, <<NRomfs>>), t)>>) :
             t \in {tt \in Trees : tt.exists /\ \A k \in 1..Len(tt.files) : tt.files[k].readable} }
    \cup { Definition(TRUE, "ok", <<Exe(FALSE)>>,
                      <<PluginFolder(AbsolutePath(PRomfs), SrcPath(FALSE, <<NRomfs>>),
                                     Tree(FALSE, <<>>))>>) }
    \cup { Definition(TRUE, "ok", <<Exe(TRUE)>>,
                      <<PluginFolder(AbsolutePath(PRomfs), SrcPath(FALSE, <<NRomfs>>), t1),
                        PluginFolder(AbsolutePath(<<NData>>), SrcPath(FALSE, <<NData>>), t2)>>) :
             t1 \in FullTrees, t2 \in FullTrees }

\* the k-th entry of "plugins"
Entry(k, d) ==
    [name |-> DirName(k), is_dir |-> d.is_dir, manifest |-> d.manifest, files |-> d.files,
     folders |-> d.folders]

\* ---------------------------------------------------------- get (188-202)
InitRegistry ==
    /\ ClientInit
    /\ fs = [p \in Paths |-> "none"]
    /\ cwd \in Cwds
    /\ seen = <<>>
    /\ out = <<>>
    /\ rpc = "reading"

Reading == rpc = "reading" /\ Len(seen) < MaxPackages

\* lines 192-197: Ok(None) and Err(e) are filtered out
GetSkips ==
    /\ Reading
    /\ \E d \in Definitions :
        LET dir == Entry(Len(seen) + 1, d) IN
        /\ folder_to_plugin(dir, cwd).status \in {"none", "err"}
        /\ seen' = Append(seen, dir)
    /\ UNCHANGED <<cwd, out, rpc, clientVars>>

\* line 193: Ok(Some(plugin)) is collected
GetCollects ==
    /\ Reading
    /\ \E d \in Definitions :
        LET dir == Entry(Len(seen) + 1, d) IN
        /\ folder_to_plugin(dir, cwd).status = "plugin"
        /\ seen' = Append(seen, dir)
        /\ out' = Append(out, Plugin(dir.name, folder_to_plugin(dir, cwd).files))
    /\ UNCHANGED <<cwd, rpc, clientVars>>

\* lines 147, 157, 158: a panic in folder_to_plugin ends get without a result
GetPanics ==
    /\ Reading
    /\ \E d \in Definitions :
        LET dir == Entry(Len(seen) + 1, d) IN
        /\ folder_to_plugin(dir, cwd).status = "panic"
        /\ seen' = Append(seen, dir)
    /\ rpc' = "panicked"
    /\ UNCHANGED <<cwd, out, clientVars>>

\* lines 189-201: read_dir is exhausted, Ok(plugins) is returned
GetReturns ==
    /\ rpc = "reading"
    /\ rpc' = "returned"
    /\ UNCHANGED <<cwd, seen, out, clientVars>>

NextRegistry ==
    \/ GetSkips
    \/ GetCollects
    \/ GetPanics
    \/ GetReturns

SpecRegistry == InitRegistry /\ [][NextRegistry]_vars


\* ------------------------------------------------- properties of the registry
\* the entry of "plugins" a collected plugin was built from
DirOf(plugin) == CHOOSE dir \in Range(seen) : dir.name = plugin.name

FolderIds(dir) == 1..Len(dir.folders)

\* where a walked file of a folder lies on the server's disk
WalkedPath(dir, folder, f, wd) ==
    PathJoin(PathJoin(wd, PathJoin(EntryPath(dir.name), folder.root_name)),
             SrcPath(FALSE, f.rel))

\* the ways a definition can be bad
ManifestBad(dir) == dir.manifest # "ok"
DeclaredFileUnreadable(dir) ==
    \/ \E k \in 1..Len(dir.files) : ~dir.files[k].readable
    \/ \E m \in FolderIds(dir) :
           \E k \in 1..Len(dir.folders[m].tree.files) : ~dir.folders[m].tree.files[k].readable
FolderRootMissing(dir) == \E m \in FolderIds(dir) : ~dir.folders[m].tree.exists
AnchorUnresolvable(dir, wd) ==
    \E m \in FolderIds(dir) :
        \E k \in 1..Len(dir.folders[m].tree.files) :
            AppendPath(WalkedPath(dir, dir.folders[m], dir.folders[m].tree.files[k], wd)).panic

WellFormedDefinition(dir, wd) ==
    /\ dir.is_dir
    /\ ~ManifestBad(dir)
    /\ ~DeclaredFileUnreadable(dir)
    /\ ~FolderRootMissing(dir)
    /\ ~AnchorUnresolvable(dir, wd)

WellFormedSeen == {k \in 1..Len(seen) : WellFormedDefinition(seen[k], cwd)}

\* C11: once get has read a well-formed definition it does not end without a
\* result, whatever the other definitions are, and when it has ended its result
\* holds one Plugin for every well-formed definition it read and none for the
\* others.
C11_BadDefinitionIsOnlyOmitted ==
    (WellFormedSeen # {} /\ rpc # "reading") =>
        /\ rpc = "returned"
        /\ {plugin.name : plugin \in Range(out)} = {seen[k].name : k \in WellFormedSeen}

\* what is left of C11 when no definition panics: the three kinds of bad
\* definition that are returned as Err are omitted alone
C11_ErrIsOnlyOmitted ==
    rpc = "returned" =>
        {plugin.name : plugin \in Range(out)} = {seen[k].name : k \in WellFormedSeen}

IsSentinelOf(a, folder) == a = Artifact(folder.install_root_location, <<>>)
IsPlain(a, dir) == \E k \in 1..Len(dir.files) : a.install_location = dir.files[k].install_location
IsFlattenedFrom(a, folder) ==
    LET root == InstallLoc(folder.install_root_location) IN
    /\ a.install_location.tag = "AbsolutePath"
    /\ Len(a.install_location.path) > Len(root)
    /\ IsUnder(a.install_location.path, root)

\* C12: in the files of every collected Plugin each folder of its definition
\* has exactly one empty artifact at its install_root_location; as many
\* artifacts lie below that location as the folder holds files; each of them
\* comes before every declared file's artifact and before the folder's empty
\* artifact.
C12_SentinelsAndOrder ==
    \A plugin \in Range(out) :
        LET dir == DirOf(plugin)
            fl == plugin.files
        IN  \A m \in FolderIds(dir) :
                LET folder == dir.folders[m] IN
                /\ Cardinality({k \in 1..Len(fl) : IsSentinelOf(fl[k], folder)}) = 1
                /\ Cardinality({k \in 1..Len(fl) : IsFlattenedFrom(fl[k], folder)})
                     = Len(folder.tree.files)
                /\ \A x, y \in 1..Len(fl) :
                       IsFlattenedFrom(fl[x], folder) =>
                           /\ IsPlain(fl[y], dir) => x < y
                           /\ IsSentinelOf(fl[y], folder) => x < y

C12_Witness ==
    \E plugin \in Range(out) :
        /\ Len(DirOf(plugin).folders) = 2
        /\ Len(DirOf(plugin).files) = 1
        /\ Len(plugin.files) > 5


\* C16: no collected Plugin comes from a definition with a folder whose
\* install_root_location is not an AbsolutePath, and no artifact of a collected
\* Plugin lies at such a location or below the stand-in root of one.
C16_NonAbsoluteRootRejected ==
    \A plugin \in Range(out) :
        /\ \A m \in FolderIds(DirOf(plugin)) :
               DirOf(plugin).folders[m].install_root_location.tag = "AbsolutePath"
        /\ \A k \in 1..Len(plugin.files) :
               /\ plugin.files[k].install_location.tag = "AbsolutePath"
               /\ ~IsUnder(plugin.files[k].install_location.path, <<NErr>>)

\* C17: for every file at rel below the root of a folder of a collected
\* Plugin's definition, the Plugin holds the file's bytes at
\* AbsolutePath(install_root_location joined with rel), whatever the folder's
\* root_name and the working directory are.
C17_LocationIsRootJoinedRel ==
    \A plugin \in Range(out) :
        \A m \in FolderIds(DirOf(plugin)) :
            LET folder == DirOf(plugin).folders[m] IN
            folder.install_root_location.tag = "AbsolutePath" =>
                \A k \in 1..Len(folder.tree.files) :
                    Artifact(AbsolutePath(folder.install_root_location.path
                                              \o folder.tree.files[k].rel),
                             folder.tree.files[k].bytes) \in Range(plugin.files)

\* what is left of C17 for a root_name of one relative component read in a
\* working directory without a "plugins" component
C17_OneComponentRootName ==
    \A plugin \in Range(out) :
        \A m \in FolderIds(DirOf(plugin)) :
            LET folder == DirOf(plugin).folders[m] IN
            (/\ folder.install_root_location.tag = "AbsolutePath"
             /\ ~folder.root_name.abs
             /\ Len(folder.root_name.comps) = 1
             /\ Position(cwd.comps, NPlugins) = 0) =>
                \A k \in 1..Len(folder.tree.files) :
                    Artifact(AbsolutePath(folder.install_root_location.path
                                              \o folder.tree.files[k].rel),
                             folder.tree.files[k].bytes) \in Range(plugin.files)


\* ------------------------------------------- further properties of the client
\* update is running: it was entered and has not returned
Running == pc \in {"predelete", "loop", "read", "install", "blocked"}

\* C13: a call that has not returned can always take another step: no connect,
\* read or write of the control or the data channel waits without a bound.
C13_AttemptNeverWaitsForever == Running => ENABLED Next

\* the list has the locations of the Plugin the registry builds for a
\* definition whose folders each hold a file
FolderPackage(l) ==
    \E d \in Definitions, wd \in Cwds :
        LET built == folder_to_plugin(Entry(1, d), wd) IN
        /\ d.folders # <<>>
        /\ \A m \in 1..Len(d.folders) : d.folders[m].tree.files # <<>>
        /\ built.status = "plugin"
        /\ Len(built.files) = Len(l)
        /\ \A k \in 1..Len(l) : l[k].install_location = built.files[k].install_location

\* the call ended in install_file although the file could be written: the write
\* met an I/O error
WriteFault == exit = "install" /\ WriteOk(fs, PathOf(i), TRUE)

\* artifact k is an install root: another listed artifact lies below it
IsInstallRoot(k) == \E j \in Positions : j # k /\ IsUnder(PathOf(j), PathOf(k))

\* when the call started nothing stood in the way of the package: an install
\* root was a directory or absent, any other listed path a file or absent
SuitableStart ==
    \A k \in Positions :
        fs0[PathOf(k)] \in (IF IsInstallRoot(k) THEN {"none", "dir"} ELSE {"none", "old"})

\* C14: a call of custom_check_update that starts with the marker absent and
\* nothing in the way, gets an Update response listing a folder package, is
\* accepted and installs on the Switch with every connection and every read
\* succeeding and no I/O error returns true, leaves the marker absent and
\* leaves every listed file below the install root holding the bytes the
\* server sent.
C14_FolderPackageInstalls ==
    (/\ pc = "done"
     /\ entry = "custom_check_update"
     /\ query.accepted
     /\ installer = "switch"
     /\ ~marker0
     /\ ~resumed
     /\ exit \notin {"connect_data", "read"}
     /\ ~WriteFault
     /\ FolderPackage(files)
     /\ SuitableStart) =>
        /\ result = "true"
        /\ ~marker
        /\ \A k \in Positions :
               (\E j \in Positions : j # k /\ IsUnder(PathOf(k), PathOf(j))) =>
                   fs[PathOf(k)] = ServerBytes

\* C15: when a call repeated after a restart returns true on the Switch, the
\* path of every artifact of required_files holds the bytes the server sends
\* for this update (or is a directory), and so does the path of every artifact
\* such a call has skipped.
C15_SkippedWasInstalledByThisUpdate ==
    (resumed /\ installer = "switch") =>
        /\ \A k \in skipped : fs[PathOf(k)] \in {ServerBytes, "dir"}
        /\ (pc = "done" /\ result = "true") =>
               \A k \in Positions : fs[PathOf(k)] \in {ServerBytes, "dir"}

\* C18: while update runs the marker is as it was when the call started, so
\* the test of the pre-download step and every skip test see the same marker;
\* no call both removes a directory and skips an artifact.
C18_DeleteAndSkipExclusive ==
    /\ Running => marker = marker0
    /\ ~(deleted # {} /\ skipped # {})

C18_Witness ==
    /\ pc = "done"
    /\ result = "true"
    /\ entry = "install_update"
    /\ skipped # {}
    /\ DirsAtStart # {}

\* C19: on the Switch a call of custom_check_update that starts with the
\* marker present and decodes an Update response goes on to update and is not
\* declined; a call is declined only on the Switch with the marker absent.
C19_MarkerAnswersForTheUser ==
    /\ (/\ entry = "custom_check_update"
        /\ installer = "switch"
        /\ marker0
        /\ query.decoded
        /\ response.code = "Update") => (query.accepted /\ exit # "declined")
    /\ exit = "declined" => (installer = "switch" /\ ~marker0)

C19_Witness ==
    /\ entry = "custom_check_update"
    /\ installer = "switch"
    /\ marker0
    /\ ~resumed
    /\ query.accepted
    /\ response.code = "Update"
    /\ pc = "done"

\* the directories among the artifacts when the call started were all removed
AllDirsDeleted == \A k \in DirsAtStart : \E p \in deleted : IsUnder(PathOf(k), p)

\* C20: whatever package a call installs, when it starts with the marker
\* present it removes no directory, only such a call skips, and a call that
\* returns true leaves the marker absent; a call for the package whose install
\* was interrupted that starts with the marker absent removes every listed
\* directory and skips nothing.
C20_RecoveryDependsOnMarkerOnly ==
    /\ (marker0 /\ InUpdate) => deleted = {}
    /\ skipped # {} => marker0
    /\ (pc = "done" /\ result = "true") => ~marker
    /\ (interrupted = response.plugin_name /\ ~marker0 /\ InUpdate) =>
           (skipped = {} /\ AllDirsDeleted)

C20_Witness ==
    /\ interrupted = response.plugin_name
    /\ ~marker0
    /\ ~marker
    /\ pc = "loop"
    /\ i > 1
    /\ deleted # {}

====
